---- MODULE Spec2Model ----
(***************************************************************************)
(* Model of the air-quality download and load pipelines                    *)
(* (src/download.py, src/load.py).                                         *)
(*                                                                         *)
(* Strings are sequences of one-token strings (<<"P", ".", "M">>), so that *)
(* str.split, f-strings and the CSV text conversions are computed and not  *)
(* assumed.  A DataFrame is a sequence of rows, a row a record of cells by   *)
(* column name, a cell a typed value [t, v].  A file of the cache is the   *)
(* CSV text that to_csv wrote plus the end mark of its xz stream.          *)
(***************************************************************************)
EXTENDS Integers, Sequences, FiniteSets, TLC

VARIABLES
    fs,             \* the cache directory: path -> file, DOMAIN fs = existing paths
    prevCall,       \* harness: the maybe_download call before the last one
    lastCall,       \* harness: the last maybe_download call
    pc,             \* download main: position of the run
    run,            \* download main: number of the current run (1-based)
    meta,           \* download main: local `meta` (a DataFrame)
    file_parameters,\* download main: local `file_parameters` (set of pairs)
    todo,           \* download main: pairs the file-list loop has not visited
    files,          \* download main: list(files.iterrows()), the catalog entries
    idx,            \* download main: index of the next catalog entry
    startPaths,     \* download main: the paths that existed when the run started
    attempts,       \* download main: path -> fetch-function invocations this run
    skipped,        \* download main: what the run logged and skipped
    retcode,        \* download main: the value main returned (-1 before)
    station,        \* sink: table station, in station_id order
    quantity,       \* sink: table quantity, in quantity_id order
    observation,    \* sink: table observation, a set of rows
    lpc,            \* load_observations: position of the invocation
    invocation,     \* load_observations: number of the invocation
    fnames,         \* load_observations: local `fnames` after sorted()
    queue,          \* load_observations: the list the for loop iterates
    li,             \* load_observations: index of the next element of queue
    log,            \* load_observations: one entry per file the loop has read
    loaded,         \* files whose batch was appended by an earlier iteration
    sink,           \* sink: the names of the tables that exist
    declared,       \* sink: the columns of table observation, in declared order
    cmds,           \* load main: number of commands run so far
    lastCmd,        \* load main: the last command: its environment and arguments,
                    \*   the station table it found, the exit code before it
    exitcode        \* load main: the value main returned (-1: none)

dlvars == <<pc, run, meta, file_parameters, todo, files, idx, startPaths,
            attempts, skipped, retcode>>
mdvars == <<prevCall, lastCall>>
cmdvars == <<sink, declared, cmds, lastCmd, exitcode>>
ldvars == <<station, quantity, observation, lpc, invocation, fnames, queue, li,
            log, loaded, cmdvars>>
vars == <<fs, mdvars, dlvars, ldvars>>

----------------------------------------------------------------------------
(* Bounds *)

\* rows of a DataFrame a fetch function of the harness returns
MaxRows == 2
\* runs of the download main (the first run and its reruns)
MaxRuns == 2
\* observation files on disk
MaxFiles == 8
\* invocations of load_observations
MaxLoads == 2
\* commands given to the load main, one after the other
MaxCmds == 3
\* observation files the globs of a load command may match
CmdFiles == 3

----------------------------------------------------------------------------
(* Strings *)

\* str.split(sep): the parts of s between the occurrences of sep
RECURSIVE Split(_, _)
Split(s, sep) ==
    IF \E i \in 1..Len(s) : s[i] = sep
    THEN LET i == CHOOSE k \in 1..Len(s) :
                     s[k] = sep /\ \A j \in 1..(k - 1) : s[j] # sep
         IN  <<SubSeq(s, 1, i - 1)>> \o Split(SubSeq(s, i + 1, Len(s)), sep)
    ELSE <<s>>

\* the characters pandas reads as digits
Digits == {"0", "1", "2", "3", "4", "5", "6", "7", "8", "9"}

----------------------------------------------------------------------------
(* DataFrames and their CSV text *)

Str(v) == [t |-> "str", v |-> v]
Num(v) == [t |-> "num", v |-> v]
NaN == [t |-> "nan", v |-> <<>>]

\* texts read_csv takes for a missing value (pandas' default na_values)
NaTexts == {<<>>, <<"N", "A">>, <<"n", "a", "n">>}

IsNumText(t) == Len(t) > 0 /\ \A i \in 1..Len(t) : t[i] \in Digits

\* DataFrame.to_csv of one cell: a missing value is written as the empty field
FieldText(cell) == IF cell.t = "nan" THEN <<>> ELSE cell.v

\* DataFrame.to_csv(path, index=False): the text of every row, column by column
ToCsv(frame) ==
    [i \in 1..Len(frame) |-> [c \in DOMAIN frame[i] |-> FieldText(frame[i][c])]]

\* read_csv infers one type per column: numeric when every present field is
ColNumeric(text, c) ==
    \A i \in 1..Len(text) : text[i][c] \in NaTexts \/ IsNumText(text[i][c])

ParseField(t, numeric) ==
    IF t \in NaTexts THEN NaN ELSE IF numeric THEN Num(t) ELSE Str(t)

\* pd.read_csv(path) of a complete file
ReadCsv(text) ==
    [i \in 1..Len(text) |->
        [c \in DOMAIN text[i] |-> ParseField(text[i][c], ColNumeric(text, c))]]

\* the file data.to_csv(path) leaves when it completes
WrittenFile(frame) == [text |-> ToCsv(frame), eos |-> TRUE]

\* the file data.to_csv(path) leaves when the process dies after k rows:
\* the path exists, the xz stream has no end mark
PartialFile(frame, k) == [text |-> SubSeq(ToCsv(frame), 1, k), eos |-> FALSE]

----------------------------------------------------------------------------
(* The cache-backed fetcher: maybe_download *)

EmptyCache == [p \in {} |-> {}]

\* what a fetch function does when it is invoked: it returns a DataFrame
\* ("ok") or raises requests.HTTPError ("http") or anything else ("other":
\* requests.ConnectionError, pandas.errors.EmptyDataError, ...)
FetchKinds == {"ok", "http", "other"}

\* path.exists()
Exists(cache, path) == path \in DOMAIN cache

\* a fetcher that creates the destination before it fetches
StoreEager(cache, path, fetch) ==
    IF fetch.kind = "ok"
    THEN (path :> WrittenFile(fetch.data)) @@ cache
    ELSE (path :> PartialFile(fetch.data, 0)) @@ cache

\* the cache after the not-exists branch: the with block raises before
\* makedirs and to_csv are reached, or to_csv writes the whole DataFrame
StoreFetched(cache, path, fetch) ==
    IF fetch.kind = "ok"
    THEN (path :> WrittenFile(fetch.data)) @@ cache
    ELSE cache

\* the else branch, pd.read_csv(path): a stream without its end mark raises
ReadCached(file) ==
    IF file.eos
    THEN [exc |-> "none", data |-> ReadCsv(file.text)]
    ELSE [exc |-> "other", data |-> <<>>]

\* a fetcher that never looks at the cache: it fetches and writes every time
maybe_download_always(cache, path, fetch) ==
    [fs |-> StoreFetched(cache, path, fetch),
     exc |-> IF fetch.kind = "ok" THEN "none" ELSE fetch.kind,
     data |-> IF fetch.kind = "ok" THEN fetch.data ELSE <<>>,
     fetched |-> TRUE]

\* maybe_download(fname, download_func): the cache it leaves, the exception it
\* raises ("none": it returns), the DataFrame it returns, and whether
\* download_func was invoked
maybe_download(cache, path, fetch) ==
    IF ~Exists(cache, path)
    THEN [fs |-> StoreFetched(cache, path, fetch),
          exc |-> IF fetch.kind = "ok" THEN "none" ELSE fetch.kind,
          data |-> IF fetch.kind = "ok" THEN fetch.data ELSE <<>>,
          fetched |-> TRUE]
    ELSE [fs |-> cache,
          exc |-> ReadCached(cache[path]).exc,
          data |-> ReadCached(cache[path]).data,
          fetched |-> FALSE]

----------------------------------------------------------------------------
(* Paths of the cache (below data_root) *)

MetaPath == << <<"metadata", ".", "csv", ".", "xz">> >>

PollutantMetaPath == << <<"metadata_pollutants", ".", "csv", ".", "xz">> >>

FileListPath(pollutant, country_code) ==
    << <<"file_lists">>,
       pollutant \o <<"_">> \o country_code \o <<".", "csv", ".", "xz">> >>

\* Path(url).name
UrlName(url) == LET parts == Split(url, "/") IN parts[Len(parts)]

RawPath(pollutant, country_code, url) ==
    << <<"raw">>, pollutant, country_code, UrlName(url) \o <<".", "xz">> >>

----------------------------------------------------------------------------
(* maybe_download on its own: any caller, any fetch function *)

HarnessPaths == {MetaPath, PollutantMetaPath}

\* cells a fetch function may return: the strings a scraped page yields
\* (get_td_text returns '' for a multi-line field), and parsed numbers
HarnessCells == {Str(<<>>), Str(<<"x">>), Num(<<"1">>)}

HarnessFrames ==
    UNION {[1..n -> {[value |-> c] : c \in HarnessCells}] : n \in 1..MaxRows}

\* the load command is not part of this specification
NoCmd == [env |-> FALSE, cmd |-> "nocmd", stations |-> 0, found |-> <<>>,
          before |-> -1]

LoadOff ==
    /\ sink = {}
    /\ declared = <<>>
    /\ cmds = 0
    /\ lastCmd = NoCmd
    /\ exitcode = -1
    /\ station = <<>>
    /\ quantity = <<>>
    /\ observation = {}
    /\ lpc = "off"
    /\ invocation = 0
    /\ fnames = <<>>
    /\ queue = <<>>
    /\ li = 1
    /\ log = <<>>
    /\ loaded = {}

NoCall == [path |-> <<>>, fetchKind |-> "nocall", fetched |-> FALSE,
           exc |-> "nocall", data |-> <<>>]

MDInit ==
    /\ fs = EmptyCache
    /\ prevCall = NoCall
    /\ lastCall = NoCall
    /\ pc = "harness"
    /\ run = 1
    /\ meta = <<>>
    /\ file_parameters = {}
    /\ todo = {}
    /\ files = <<>>
    /\ idx = 1
    /\ startPaths = {}
    /\ attempts = EmptyCache
    /\ skipped = {}
    /\ retcode = -1
    /\ LoadOff

\* one call maybe_download(path, download_func), download_func behaving as fetch
MDCall(path, fetch) ==
    LET r == maybe_download(fs, path, fetch)
    IN  /\ fs' = r.fs
        /\ prevCall' = lastCall
        /\ lastCall' = [path |-> path,
                        fetchKind |-> IF r.fetched THEN fetch.kind ELSE "notcalled",
                        fetched |-> r.fetched,
                        exc |-> r.exc,
                        data |-> r.data]
        /\ UNCHANGED <<dlvars, ldvars>>

\* the behaviours a fetch function may show when invoked
HarnessFetches ==
    {[kind |-> "ok", data |-> d] : d \in HarnessFrames}
        \cup {[kind |-> k, data |-> <<>>] : k \in FetchKinds \ {"ok"}}

\* a cached path never consults the fetch function: one call stands for all
MDNext ==
    \E path \in HarnessPaths :
        \E fetch \in IF Exists(fs, path)
                      THEN {[kind |-> "ok", data |-> <<>>]}
                      ELSE HarnessFetches :
            MDCall(path, fetch)

SpecMD == MDInit /\ [][MDNext]_vars

----------------------------------------------------------------------------
(* The remote catalog, as the download functions see it *)

CountryAT == <<"A", "T">>
CodeUrlA == <<"vocab", "/", "A">>
CodeUrlB == <<"vocab", "/", "B">>

MetaRow(country_code, code_url) ==
    [Countrycode |-> country_code, AirPollutantCode |-> code_url]

\* PanEuropean_metadata.csv, as text: the catalog may grow between two runs
RemoteMetadataTexts ==
    { << MetaRow(CountryAT, CodeUrlA) >>,
      << MetaRow(CountryAT, CodeUrlA), MetaRow(CountryAT, CodeUrlB) >> }

\* download_metadata: pd.read_csv of the response
download_metadata(text) == ReadCsv(text)

\* the definition table of a pollutant page: th label -> text nodes of the td
RemotePollutantPage(code_url) ==
    IF code_url = CodeUrlA
    THEN [Notation |-> << <<"N">> >>,
          Definition |-> << <<" ", "gas">> >>]
    ELSE [Notation |-> << <<"P", ".", "M">> >>,
          Definition |-> << <<"fine", "\n", "dust">>, <<"\n">> >>]

Whitespace == {" ", "\n"}

\* str.strip()
RECURSIVE Strip(_)
Strip(s) ==
    IF s = <<>> THEN s
    ELSE IF s[1] \in Whitespace THEN Strip(Tail(s))
    ELSE IF s[Len(s)] \in Whitespace THEN Strip(SubSeq(s, 1, Len(s) - 1))
    ELSE s

\* ''.join(s.strip() for s in nodes)
RECURSIVE JoinStripped(_)
JoinStripped(nodes) ==
    IF nodes = <<>> THEN <<>>
    ELSE Strip(Head(nodes)) \o JoinStripped(Tail(nodes))

\* get_td_text: multi-line content is dropped
get_td_text(nodes) ==
    LET s == JoinStripped(nodes)
    IN  IF \E i \in 1..Len(s) : s[i] = "\n" THEN <<>> ELSE s

\* Series.unique(): the values in order of first appearance
RECURSIVE Unique(_)
Unique(s) ==
    IF s = <<>> THEN <<>>
    ELSE LET init == Unique(SubSeq(s, 1, Len(s) - 1))
             last == s[Len(s)]
         IN  IF \E i \in 1..Len(init) : init[i] = last
             THEN init
             ELSE Append(init, last)

\* download_pollutant_metadata(meta): one row per distinct pollutant-code url
download_pollutant_metadata(m) ==
    LET codes == Unique([i \in 1..Len(m) |-> m[i].AirPollutantCode])
    IN  [i \in 1..Len(codes) |->
            [Notation |-> Str(get_td_text(RemotePollutantPage(codes[i].v).Notation)),
             Definition |-> Str(get_td_text(RemotePollutantPage(codes[i].v).Definition)),
             AirPollutantCode |-> codes[i]]]

\* pd.merge(meta, pollutant_meta, on='AirPollutantCode', how='left') and the
\* set of (r['Notation'], r['Countrycode']) over its rows
FileParameters(m, pollutant_meta) ==
    UNION { LET match == {j \in 1..Len(pollutant_meta) :
                            pollutant_meta[j].AirPollutantCode = m[i].AirPollutantCode}
            IN  IF match = {}
                THEN {<<NaN, m[i].Countrycode>>}
                ELSE {<<pollutant_meta[j].Notation, m[i].Countrycode>> : j \in match}
          : i \in 1..Len(m) }

\* a value formatted into an f-string
Fmt(cell) == IF cell.t = "nan" THEN <<"n", "a", "n">> ELSE cell.v

PairPath(pair) == FileListPath(Fmt(pair[1]), Fmt(pair[2]))

UrlF == <<"http:", "/", "f">>
UrlG == <<"http:", "/", "g">>

\* the answer of the query endpoint for one pair, as text: one url per line
RemoteFileListTexts == { << [url |-> UrlF] >>, << [url |-> UrlF], [url |-> UrlG] >> }

\* download_file_list: pd.read_csv(..., names=['url'])
download_file_list(text) == ReadCsv(text)

\* a measurement file, as text
RemoteDataText == << [Concentration |-> <<"1">>], [Concentration |-> <<"2">>] >>

\* download_data_file: pd.read_csv of the response
download_data_file(url) == ReadCsv(RemoteDataText)

----------------------------------------------------------------------------
(* Order of file names *)

\* the characters of the model's file names in code-point order
TokenOrder == <<".", "A", "M", "N", "P", "T", "_", "csv", "xz">>

Ord(c) == CHOOSE i \in 1..Len(TokenOrder) : TokenOrder[i] = c

\* s < t for two strings
RECURSIVE LexLess(_, _)
LexLess(s, t) ==
    IF t = <<>> THEN FALSE
    ELSE IF s = <<>> THEN TRUE
    ELSE IF s[1] = t[1] THEN LexLess(Tail(s), Tail(t))
    ELSE Ord(s[1]) < Ord(t[1])

\* sorted(S) for a set of paths of one directory
RECURSIVE SortedPaths(_)
SortedPaths(S) ==
    IF S = {} THEN <<>>
    ELSE LET first == CHOOSE x \in S :
                         \A y \in S \ {x} : LexLess(x[Len(x)], y[Len(y)])
         IN  <<first>> \o SortedPaths(S \ {first})

----------------------------------------------------------------------------
(* The download command: main *)

Running == {"metadata", "pollutants", "file_lists", "raw"}
Stopped == {"done", "aborted", "killed"}

NoAttempts == [p \in {} |-> 0]

\* one more maybe_download call on path, which invoked the fetch function or not
Count(att, path, fetched) ==
    (path :> ((IF path \in DOMAIN att THEN att[path] ELSE 0)
                + (IF fetched THEN 1 ELSE 0))) @@ att

Skip(stage, pair, entry, exc) ==
    [stage |-> stage, pair |-> pair, entry |-> entry, exc |-> exc]

\* a file-list loop that catches every exception
FileListLoopCatchesAll(exc) == exc \in {"http", "other"}

\* the file-list loop: except requests.HTTPError
FileListLoopCatches(exc) == exc = "http"

\* a raw-data loop that catches only requests.HTTPError
RawLoopCatchesHttp(exc) == exc = "http"

\* the raw-data loop: except requests.HTTPError, except Exception
RawLoopCatches(exc) == exc \in {"http", "other"}

Init ==
    /\ fs = EmptyCache
    /\ prevCall = NoCall
    /\ lastCall = NoCall
    /\ pc = "metadata"
    /\ run = 1
    /\ meta = <<>>
    /\ file_parameters = {}
    /\ todo = {}
    /\ files = <<>>
    /\ idx = 1
    /\ startPaths = {}
    /\ attempts = NoAttempts
    /\ skipped = {}
    /\ retcode = -1
    /\ LoadOff

\* meta = maybe_download('metadata.csv.xz', download_metadata): an exception
\* leaves main
FetchMetadata ==
    /\ pc = "metadata"
    /\ \E fetch \in IF Exists(fs, MetaPath)
                   THEN {[kind |-> "ok", data |-> <<>>]}
                   ELSE {[kind |-> "ok", data |-> download_metadata(t)] :
                            t \in RemoteMetadataTexts}
                        \cup {[kind |-> k, data |-> <<>>] : k \in FetchKinds \ {"ok"}} :
        LET r == maybe_download(fs, MetaPath, fetch)
        IN  /\ fs' = r.fs
            /\ attempts' = Count(attempts, MetaPath, r.fetched)
            /\ meta' = IF r.exc = "none" THEN r.data ELSE meta
            /\ pc' = IF r.exc = "none" THEN "pollutants" ELSE "aborted"
    /\ UNCHANGED ldvars
    /\ UNCHANGED <<mdvars, run, file_parameters, todo, files, idx, startPaths,
                   skipped, retcode>>

\* pollutant_meta = maybe_download('metadata_pollutants.csv.xz', ...), the
\* merge and the set of file parameters
FetchPollutantMetadata ==
    /\ pc = "pollutants"
    /\ \E kind \in IF Exists(fs, PollutantMetaPath) THEN {"ok"} ELSE FetchKinds :
        LET r == maybe_download(fs, PollutantMetaPath,
                    [kind |-> kind,
                     data |-> IF kind = "ok"
                              THEN download_pollutant_metadata(meta) ELSE <<>>])
        IN  /\ fs' = r.fs
            /\ attempts' = Count(attempts, PollutantMetaPath, r.fetched)
            /\ IF r.exc = "none"
               THEN /\ file_parameters' = FileParameters(meta, r.data)
                    /\ todo' = FileParameters(meta, r.data)
                    /\ pc' = "file_lists"
               ELSE /\ UNCHANGED <<file_parameters, todo>>
                    /\ pc' = "aborted"
    /\ UNCHANGED ldvars
    /\ UNCHANGED <<mdvars, run, meta, files, idx, startPaths, skipped, retcode>>

\* one iteration of `for pollutant, country_code in tqdm(file_parameters)`:
\* a set is iterated in no particular order
FetchFileList ==
    /\ pc = "file_lists"
    /\ \E pair \in todo :
        \E fetch \in IF Exists(fs, PairPath(pair))
                     THEN {[kind |-> "ok", data |-> <<>>]}
                     ELSE {[kind |-> "ok", data |-> download_file_list(t)] :
                              t \in RemoteFileListTexts}
                          \cup {[kind |-> k, data |-> <<>>] : k \in FetchKinds \ {"ok"}} :
            LET r == maybe_download(fs, PairPath(pair), fetch)
            IN  /\ fs' = r.fs
                /\ attempts' = Count(attempts, PairPath(pair), r.fetched)
                /\ IF r.exc = "none"
                   THEN /\ todo' = todo \ {pair}
                        /\ UNCHANGED <<pc, skipped>>
                   ELSE IF FileListLoopCatches(r.exc)
                   THEN /\ todo' = todo \ {pair}
                        /\ skipped' = skipped \cup {Skip("file_lists", pair, 0, r.exc)}
                        /\ UNCHANGED pc
                   ELSE /\ pc' = "aborted"
                        /\ UNCHANGED <<todo, skipped>>
    /\ UNCHANGED ldvars
    /\ UNCHANGED <<mdvars, run, meta, file_parameters, files, idx, startPaths,
                   retcode>>

\* glob('file_lists/*.csv.xz'), sorted
CachedFileLists(cache) == {p \in DOMAIN cache : p[1] = <<"file_lists">>}

\* the rows of the file lists, each with the path of its file
RECURSIVE ListRows(_, _)
ListRows(cache, paths) ==
    IF paths = <<>> THEN <<>>
    ELSE LET rows == ReadCsv(cache[Head(paths)].text)
         IN  [i \in 1..Len(rows) |-> [url |-> rows[i].url, path |-> Head(paths)]]
                \o ListRows(cache, Tail(paths))

\* files = dd.read_csv('file_lists/*.csv.xz', include_path_column=True).compute()
\* after the file-list loop: no file, or a file that cannot be read, raises
ReadFileLists ==
    /\ pc = "file_lists"
    /\ todo = {}
    /\ IF CachedFileLists(fs) = {} \/ \E p \in CachedFileLists(fs) : ~fs[p].eos
       THEN /\ pc' = "aborted"
            /\ UNCHANGED <<files, idx>>
       ELSE /\ files' = ListRows(fs, SortedPaths(CachedFileLists(fs)))
            /\ idx' = 1
            /\ pc' = "raw"
    /\ UNCHANGED ldvars
    /\ UNCHANGED <<fs, mdvars, run, meta, file_parameters, todo, startPaths,
                   attempts, skipped, retcode>>

\* Path(row['path']).name.split('.')[0].split('_')
StemParts(path) == Split(Split(path[Len(path)], ".")[1], "_")

\* the entry cannot be turned into a path: the unpacking of the split raises
\* ValueError, Path(url) of a value that is no string raises TypeError
EntryBad(row) == Len(StemParts(row.path)) # 2 \/ row.url.t # "str"

EntryPath(row) == RawPath(StemParts(row.path)[1], StemParts(row.path)[2], row.url.v)

\* one iteration of `for _, row in tqdm(list(files.iterrows()))`
DownloadEntry ==
    /\ pc = "raw"
    /\ idx <= Len(files)
    /\ IF EntryBad(files[idx])
       THEN /\ IF RawLoopCatches("other")
               THEN /\ idx' = idx + 1
                    /\ skipped' = skipped \cup {Skip("raw", <<>>, idx, "other")}
                    /\ UNCHANGED pc
               ELSE /\ pc' = "aborted"
                    /\ UNCHANGED <<idx, skipped>>
            /\ UNCHANGED <<fs, attempts>>
       ELSE \E kind \in IF Exists(fs, EntryPath(files[idx])) THEN {"ok"} ELSE FetchKinds :
            LET path == EntryPath(files[idx])
                r == maybe_download(fs, path,
                        [kind |-> kind,
                         data |-> IF kind = "ok"
                                  THEN download_data_file(files[idx].url.v) ELSE <<>>])
            IN  /\ fs' = r.fs
                /\ attempts' = Count(attempts, path, r.fetched)
                /\ IF r.exc = "none"
                   THEN /\ idx' = idx + 1
                        /\ UNCHANGED <<pc, skipped>>
                   ELSE IF RawLoopCatches(r.exc)
                   THEN /\ idx' = idx + 1
                        /\ skipped' = skipped \cup {Skip("raw", <<>>, idx, r.exc)}
                        /\ UNCHANGED pc
                   ELSE /\ pc' = "aborted"
                        /\ UNCHANGED <<idx, skipped>>
    /\ UNCHANGED ldvars
    /\ UNCHANGED <<mdvars, run, meta, file_parameters, todo, files, startPaths,
                   retcode>>

\* a main that reports the skipped resources in its return value
FinishReportsSkipped ==
    /\ pc = "raw"
    /\ idx > Len(files)
    /\ pc' = "done"
    /\ retcode' = IF skipped = {} THEN 0 ELSE 1
    /\ UNCHANGED ldvars
    /\ UNCHANGED <<fs, mdvars, run, meta, file_parameters, todo, files, idx,
                   startPaths, attempts, skipped>>

\* print('Done.'); return 0
Finish ==
    /\ pc = "raw"
    /\ idx > Len(files)
    /\ pc' = "done"
    /\ retcode' = 0
    /\ UNCHANGED ldvars
    /\ UNCHANGED <<fs, mdvars, run, meta, file_parameters, todo, files, idx,
                   startPaths, attempts, skipped>>

\* the maybe_download calls the run may be in: destination and fetched DataFrame
CurrentFetches ==
    CASE pc = "metadata" ->
            {[path |-> MetaPath, data |-> download_metadata(t)] :
                t \in RemoteMetadataTexts}
      [] pc = "pollutants" ->
            {[path |-> PollutantMetaPath, data |-> download_pollutant_metadata(meta)]}
      [] pc = "file_lists" ->
            {[path |-> PairPath(pair), data |-> download_file_list(t)] :
                pair \in todo, t \in RemoteFileListTexts}
      [] pc = "raw" /\ idx <= Len(files) ->
            IF EntryBad(files[idx]) THEN {}
            ELSE {[path |-> EntryPath(files[idx]),
                   data |-> download_data_file(files[idx].url.v)]}
      [] OTHER -> {}

\* the process is terminated inside data.to_csv(path), after k rows: the fetch
\* function has returned, the path exists, the file is not complete
KillInWrite ==
    /\ pc \in Running
    /\ \E f \in CurrentFetches :
        /\ ~Exists(fs, f.path)
        /\ \E k \in 0..Len(f.data) :
            fs' = (f.path :> PartialFile(f.data, k)) @@ fs
        /\ attempts' = Count(attempts, f.path, TRUE)
    /\ pc' = "killed"
    /\ UNCHANGED ldvars
    /\ UNCHANGED <<mdvars, run, meta, file_parameters, todo, files, idx,
                   startPaths, skipped, retcode>>

\* the process is terminated anywhere else
Kill ==
    /\ pc \in Running
    /\ pc' = "killed"
    /\ UNCHANGED ldvars
    /\ UNCHANGED <<fs, mdvars, run, meta, file_parameters, todo, files, idx,
                   startPaths, attempts, skipped, retcode>>

\* the command is run again on the same cache directory
Rerun ==
    /\ pc \in Stopped
    /\ run < MaxRuns
    /\ run' = run + 1
    /\ pc' = "metadata"
    /\ meta' = <<>>
    /\ file_parameters' = {}
    /\ todo' = {}
    /\ files' = <<>>
    /\ idx' = 1
    /\ startPaths' = DOMAIN fs
    /\ attempts' = NoAttempts
    /\ skipped' = {}
    /\ retcode' = -1
    /\ UNCHANGED <<fs, mdvars, ldvars>>

Next ==
    \/ FetchMetadata
    \/ FetchPollutantMetadata
    \/ FetchFileList
    \/ ReadFileLists
    \/ DownloadEntry
    \/ Finish
    \/ KillInWrite
    \/ Kill
    \/ Rerun

Spec == Init /\ [][Next]_vars

----------------------------------------------------------------------------
(* Claims about maybe_download *)

\* C1: two calls of maybe_download in a row with the same destination path,
\* the first of which returned, invoke the fetch function at most once in
\* total, and the second call returns the same content as the first.
C1_SecondCallSameContent ==
    (prevCall.exc = "none" /\ lastCall.exc # "nocall"
        /\ lastCall.path = prevCall.path)
    => /\ ~(prevCall.fetched /\ lastCall.fetched)
       /\ lastCall.exc = "none"
       /\ lastCall.data = prevCall.data

\* C2: when the fetch function raises inside maybe_download, maybe_download
\* raises that exception to its caller and the destination path does not
\* exist afterwards; the next call for that path invokes the fetch function
\* again.
C2_FailedFetchLeavesNoFile ==
    /\ lastCall.fetchKind \in {"http", "other"}
        => /\ lastCall.exc = lastCall.fetchKind
           /\ ~Exists(fs, lastCall.path)
    /\ (prevCall.fetchKind \in {"http", "other"} /\ lastCall.exc # "nocall"
            /\ lastCall.path = prevCall.path)
        => lastCall.fetched

\* C2 witness: a fetch raised, and the next call for the same path fetched again
C2_Witness ==
    /\ prevCall.fetchKind = "http"
    /\ lastCall.path = prevCall.path
    /\ lastCall.fetched
    /\ lastCall.fetchKind = "ok"
    /\ Exists(fs, lastCall.path)

----------------------------------------------------------------------------
(* Claims about the download command *)

\* the destinations of the pass before the raw-data stage: the two metadata
\* files and one file list per pair of file_parameters
CatalogPaths ==
    {MetaPath, PollutantMetaPath} \cup {PairPath(pair) : pair \in file_parameters}

\* C3: in a run of the download pass, every resource costs no remote call when
\* its path existed at the start of the run and exactly one when it was
\* missing (N present of M cost M-N calls), and a pass that reaches its end
\* has gone through every resource: the metadata files, the file list of
\* every pair and the file of every catalog entry.
C3_MissingFetchedOnce ==
    /\ \A p \in DOMAIN attempts :
          attempts[p] = IF p \in startPaths THEN 0 ELSE 1
    /\ pc = "done" =>
          /\ CatalogPaths \subseteq DOMAIN attempts
          /\ \A i \in 1..Len(files) :
                /\ ~EntryBad(files[i])
                /\ EntryPath(files[i]) \in DOMAIN attempts

\* C4: whenever and wherever the run is killed, every path that exists holds
\* the complete content of a successful fetch.
C4_ExistingFilesComplete == \A p \in DOMAIN fs : fs[p].eos

\* C5: a cached resource is write-once: no step of any run changes the
\* content of an existing path or removes it.
C5_WriteOnce ==
    [][\A p \in DOMAIN fs : p \in DOMAIN fs' /\ fs'[p] = fs[p]]_vars

\* C5 witness: a rerun has called maybe_download on a path that already
\* existed, and has created another
C5_Witness ==
    /\ run > 1
    /\ \E p \in DOMAIN attempts : p \in startPaths
    /\ \E p \in DOMAIN fs : p \notin startPaths

\* C6: in the raw-data stage no failure of an entry aborts the pass: each
\* iteration, failing or not, moves on to the next entry, and the stage ends
\* ('Done') only when every entry has had its turn.
C6_RawStageNeverAborts ==
    [][(pc = "raw" /\ pc' # "killed")
        => IF idx <= Len(files)
           THEN pc' = "raw" /\ idx' = idx + 1 /\ files' = files
           ELSE pc' = "done" /\ retcode' = 0]_vars

\* C6 witness: a pass reached 'Done' although one entry failed with an HTTP
\* error and one with another exception, and the entry after a failed one
\* was fetched
C6_Witness ==
    /\ pc = "done"
    /\ \E s \in skipped : s.stage = "raw" /\ s.exc = "http"
    /\ \E s \in skipped : s.stage = "raw" /\ s.exc = "other"
    /\ \E s \in skipped :
          /\ s.stage = "raw"
          /\ s.entry < Len(files)
          /\ ~EntryBad(files[s.entry + 1])
          /\ Exists(fs, EntryPath(files[s.entry + 1]))
          /\ EntryPath(files[s.entry + 1]) \notin startPaths

\* C7: in the file-list stage a failure for one pair skips only that pair:
\* the loop goes on with the other pairs and the run goes on.
C7_FileListFailureSkipsPair ==
    [][(pc = "file_lists" /\ todo # {} /\ pc' # "killed")
        => pc' = "file_lists" /\ \E pair \in todo : todo' = todo \ {pair}]_vars

----------------------------------------------------------------------------
(* The load command: the sink and the observation files *)

\* the limit of the for loop: zip(range(5), fnames)
FileLimit == 5

\* normalize_name on the column names of the observation files
normalize_name(n) ==
    CASE n = "AirQualityStation" -> "air_quality_station"
      [] n = "AirPollutantCode" -> "air_pollutant_code"
      [] n = "UnitOfMeasurement" -> "unit_of_measurement"
      [] n = "Concentration" -> "concentration"
      [] n = "DatetimeBegin" -> "datetime_begin"
      [] n = "DatetimeEnd" -> "datetime_end"
      [] n = "Validity" -> "validity"
      [] n = "Verification" -> "verification"
      [] n = "Altitude" -> "altitude"
      [] OTHER -> n

\* normalize_column_names(d)
normalize_column_names(d) ==
    [i \in 1..Len(d) |->
        [m \in {normalize_name(n) : n \in DOMAIN d[i]} |->
            d[i][CHOOSE n \in DOMAIN d[i] : normalize_name(n) = m]]]

\* to_sql(..., if_exists='replace', index_label=label): the rows with their
\* position in the file as surrogate key
ToSql(rows, label) ==
    [i \in 1..Len(rows) |-> (label :> (i - 1)) @@ rows[i]]

\* the stations files: the second lists other stations, in another order
StationFile(n) ==
    IF n = 1
    THEN << [AirQualityStation |-> "STA-A", Altitude |-> <<"1", "0">>],
            [AirQualityStation |-> "STA-B", Altitude |-> <<"-", "9", "9", "9">>] >>
    ELSE << [AirQualityStation |-> "STA-B", Altitude |-> <<"-", "9", "9", "9">>],
            [AirQualityStation |-> "STA-C", Altitude |-> <<>>],
            [AirQualityStation |-> "STA-A", Altitude |-> <<"1", "0">>] >>

StationFiles == {1, 2}

\* pd.read_csv(fname, na_values=['', -999]): an empty field and -999 are
\* missing values, the station codes stay strings
ReadStations(rows) ==
    [i \in 1..Len(rows) |->
        [AirQualityStation |-> rows[i].AirQualityStation,
         Altitude |-> IF rows[i].Altitude \in {<<>>, <<"-", "9", "9", "9">>}
                      THEN NaN ELSE Num(rows[i].Altitude)]]

\* the rows load_metadata writes for the first stations file
StationRows == normalize_column_names(ReadStations(StationFile(1)))

\* the rows load_quantities writes for the pollutants file
QuantityRows ==
    << [air_pollutant_code |-> "vocab/A", recommended_unit |-> "ug/m3"] >>

\* the columns the sink declares for the observation table, in its order
ObservationColumns ==
    <<"concentration", "datetime_begin", "datetime_end", "validity",
      "verification", "station_id", "quantity_id">>

\* the natural key the sink declares unique
NaturalKey(row) ==
    <<row.station_id, row.quantity_id, row.datetime_begin, row.datetime_end>>

\* one row of an observation file
ObsRowOf(station_code, pollutant_code, t) ==
    [AirQualityStation |-> station_code,
     AirPollutantCode |-> pollutant_code,
     UnitOfMeasurement |-> "ug/m3",
     Concentration |-> 10 + t,
     DatetimeBegin |-> t,
     DatetimeEnd |-> t + 1,
     Validity |-> 1,
     Verification |-> 1]

ObsRow(station_code, t) == ObsRowOf(station_code, "vocab/A", t)

\* the observation files on disk, named by their rank in lexicographic order
ObsFile(f) ==
    CASE f = 1 -> [encoding |-> "utf-8", rows |-> << ObsRow("STA-A", 1) >>]
      [] f = 2 -> [encoding |-> "utf-16", rows |-> << ObsRow("STA-A", 2) >>]
      [] f = 3 -> [encoding |-> "utf-8",
                   rows |-> << ObsRow("STA-Z", 3), ObsRowOf("STA-A", "vocab/Q", 3) >>]
      [] f = 4 -> [encoding |-> "utf-8",
                   rows |-> << ObsRow("STA-A", 1), ObsRow("STA-B", 4) >>]
      [] f = 6 -> [encoding |-> "utf-8", rows |-> << ObsRow("STA-B", 6) >>]
      [] f = 7 -> [encoding |-> "latin-1", rows |-> << ObsRow("STA-A", 7) >>]
      [] OTHER -> [encoding |-> "utf-8",
                   rows |-> << ObsRow("STA-Z", f), ObsRow("STA-B", f) >>]

ObsFiles == 1..MaxFiles

\* the files the globs of one invocation match: a run of names, or none
FileSets == {lo..hi : lo \in ObsFiles, hi \in ObsFiles}

\* sorted(fnames)
RECURSIVE Sorted(_)
Sorted(S) ==
    IF S = {} THEN <<>>
    ELSE LET first == CHOOSE x \in S : \A y \in S : x <= y
         IN  <<first>> \o Sorted(S \ {first})

\* list(zip(range(5), fnames)): zip stops with its shorter argument
ZipRange(n, names) ==
    SubSeq(names, 1, IF Len(names) < n THEN Len(names) ELSE n)

----------------------------------------------------------------------------
(* load_observations *)

\* a reader that knows one encoding only
EncodingsUtf8Only == <<"utf-8">>

\* for encoding in ('utf-8', 'utf-16')
Encodings == <<"utf-8", "utf-16">>

\* pd.read_csv(fname, encoding=encoding) raises UnicodeDecodeError or not
Decodes(file, encoding) == file.encoding = encoding

\* the for-else over the encodings: the first that decodes wins, and when
\* none does `raise Exception`; tried lists the encodings attempted
RECURSIVE ReadObservations(_, _, _)
ReadObservations(file, encs, tried) ==
    IF encs = <<>>
    THEN [exc |-> "error", rows |-> <<>>, tried |-> tried]
    ELSE IF Decodes(file, Head(encs))
    THEN [exc |-> "none", rows |-> file.rows, tried |-> Append(tried, Head(encs))]
    ELSE ReadObservations(file, Tail(encs), Append(tried, Head(encs)))

\* a join that forgets its key: every row of d with every row of the table
RECURSIVE MergeCross(_, _, _)
MergeCross(d, table, key) ==
    IF d = <<>> THEN <<>>
    ELSE [j \in 1..Len(table) |-> table[j] @@ Head(d)]
            \o MergeCross(Tail(d), table, key)

\* d.merge(table, on=key): inner join, the rows of d in order
RECURSIVE Merge(_, _, _)
Merge(d, table, key) ==
    IF d = <<>> THEN <<>>
    ELSE LET match == SelectSeq(table, LAMBDA r : r[key] = Head(d)[key])
         IN  [j \in 1..Len(match) |-> match[j] @@ Head(d)]
                \o Merge(Tail(d), table, key)

\* the columns of d after the two merges, in the order of the DataFrame: the
\* columns read from the file in the file's order, then those of the queries
FrameColumns ==
    <<"air_quality_station", "air_pollutant_code", "concentration",
      "unit_of_measurement", "datetime_begin", "datetime_end", "validity",
      "verification", "station_id", "quantity_id", "recommended_unit">>

\* a selection that keeps the DataFrame's own column order
ReorderByFrame(d, columns) ==
    LET own == SelectSeq(FrameColumns,
                         LAMBDA c : \E k \in 1..Len(columns) : columns[k] = c)
    IN  [i \in 1..Len(d) |->
            [k \in 1..Len(own) |-> [col |-> own[k], val |-> d[i][own[k]]]]]

\* d[observation_columns]: the columns of the sink, in the sink's order
Reorder(d, columns) ==
    [i \in 1..Len(d) |->
        [k \in 1..Len(columns) |-> [col |-> columns[k], val |-> d[i][columns[k]]]]]

\* the batch load_observations hands to pd_to_psql for one file's rows
Batch(rows) ==
    Reorder(
        Merge(Merge(normalize_column_names(rows), station, "air_quality_station"),
              quantity, "air_pollutant_code"),
        declared)

\* COPY is positional: the k-th value of a line goes to the k-th sink column
CopiedRow(line) ==
    [c \in {declared[k] : k \in 1..Len(declared)} |->
        line[CHOOSE k \in 1..Len(declared) : declared[k] = c].val]

\* a bulk-append inside one transaction over all files: a failure takes the
\* rows of the earlier files with it
pd_to_psql_rollback(table, batch, sink_up) ==
    LET new == {CopiedRow(batch[i]) : i \in 1..Len(batch)}
        clash == \E r \in new : \E o \in table : NaturalKey(r) = NaturalKey(o)
    IN  IF ~sink_up THEN [exc |-> "error", table |-> {}]
        ELSE IF clash THEN [exc |-> "unique", table |-> table]
        ELSE [exc |-> "none", table |-> table \cup new]

\* pd_to_psql(d, ..., 'observation', if_exists='append'): one COPY, which the
\* sink refuses as a whole when a natural key would occur twice
pd_to_psql(table, batch, sink_up) ==
    LET new == {CopiedRow(batch[i]) : i \in 1..Len(batch)}
        clash == \/ \E r \in new : \E o \in table : NaturalKey(r) = NaturalKey(o)
                 \/ \E i, j \in 1..Len(batch) :
                        /\ i # j
                        /\ NaturalKey(CopiedRow(batch[i])) = NaturalKey(CopiedRow(batch[j]))
    IN  IF ~sink_up THEN [exc |-> "error", table |-> table]
        ELSE IF clash THEN [exc |-> "unique", table |-> table]
        ELSE [exc |-> "none", table |-> table \cup new]

\* a loop that treats every failure of a file as a duplicate
LoadCatchesAll(exc) == exc \in {"unique", "error"}

\* a loop without the handler for the uniqueness violation
LoadCatchesNothing(exc) == FALSE

\* except psycopg2.errors.UniqueViolation: warn and go on; except Exception:
\* log and raise
LoadCatches(exc) == exc = "unique"

LoadInit ==
    /\ fs = EmptyCache
    /\ prevCall = NoCall
    /\ lastCall = NoCall
    /\ pc = "off"
    /\ run = 1
    /\ meta = <<>>
    /\ file_parameters = {}
    /\ todo = {}
    /\ files = <<>>
    /\ idx = 1
    /\ startPaths = {}
    /\ attempts = NoAttempts
    /\ skipped = {}
    /\ retcode = -1
    /\ station = ToSql(StationRows, "station_id")
    /\ quantity = ToSql(QuantityRows, "quantity_id")
    /\ observation = {}
    /\ lpc = "idle"
    /\ invocation = 0
    /\ fnames = <<>>
    /\ queue = <<>>
    /\ li = 1
    /\ log = <<>>
    /\ loaded = {}
    /\ sink = {"station", "quantity", "observation"}
    /\ declared = ObservationColumns
    /\ cmds = 0
    /\ lastCmd = NoCmd
    /\ exitcode = -1

\* load_observations(names, db_connection) up to the for loop
LoadStart(names) ==
    /\ lpc \in {"idle", "done", "aborted"}
    /\ invocation < MaxLoads
    /\ invocation' = invocation + 1
    /\ fnames' = Sorted(names)
    /\ queue' = ZipRange(FileLimit, Sorted(names))
    /\ li' = 1
    /\ log' = <<>>
    /\ lpc' = "loading"
    /\ cmds' = cmds + 1
    /\ lastCmd' = [env |-> TRUE, cmd |-> "observations", stations |-> 0,
                    found |-> station, before |-> exitcode]
    /\ exitcode' = -1
    /\ UNCHANGED <<fs, mdvars, dlvars, station, quantity, observation, loaded,
                   sink, declared>>

\* one iteration of the for loop: read, normalize, join, reorder, bulk-append
LoadFile(sink_up) ==
    /\ lpc = "loading"
    /\ li <= Len(queue)
    /\ LET fname == queue[li]
           d == ReadObservations(ObsFile(fname), Encodings, <<>>)
           w == pd_to_psql(observation, Batch(d.rows), sink_up)
           exc == IF d.exc # "none" THEN d.exc ELSE w.exc
       IN  /\ observation' = IF d.exc = "none" THEN w.table ELSE observation
           /\ log' = Append(log, [file |-> fname, tried |-> d.tried, exc |-> exc,
                                  sink_up |-> sink_up])
           /\ loaded' = IF exc = "none" THEN loaded \cup {fname} ELSE loaded
           /\ IF exc = "none" \/ LoadCatches(exc)
              THEN li' = li + 1 /\ lpc' = lpc
              ELSE li' = li /\ lpc' = "aborted"
    /\ UNCHANGED <<fs, mdvars, dlvars, station, quantity, invocation, fnames, queue,
                   cmdvars>>

\* the for loop is exhausted: load_observations returns, load_observations_cmd
\* returns 0 and main returns it
LoadReturn ==
    /\ lpc = "loading"
    /\ li > Len(queue)
    /\ lpc' = "done"
    /\ exitcode' = 0
    /\ UNCHANGED <<fs, mdvars, dlvars, station, quantity, observation, invocation,
                   fnames, queue, li, log, loaded, sink, declared, cmds, lastCmd>>

LoadNext ==
    \/ \E names \in FileSets : LoadStart(names)
    \/ \E sink_up \in BOOLEAN : LoadFile(sink_up)
    \/ LoadReturn

SpecLoad == LoadInit /\ [][LoadNext]_vars

----------------------------------------------------------------------------
(* The load command: main and its subcommands *)

\* a to_sql that keeps the rows the table has (if_exists='append')
to_sql_append(table, rows, label) == table \o ToSql(rows, label)

\* d.to_sql(name, db, if_exists='replace', index_label=label): the table is
\* dropped and written anew from the rows of d
to_sql(table, rows, label) == ToSql(rows, label)

\* load_metadata(fname, db_connection) on the stations file n
load_metadata(table, n) ==
    to_sql(table, normalize_column_names(ReadStations(StationFile(n))), "station_id")

\* load_quantities(fname, db_connection) on the pollutants file
load_quantities(table) == to_sql(table, QuantityRows, "quantity_id")

Rotate(s, k) == [i \in 1..Len(s) |-> s[((i + k - 1) % Len(s)) + 1]]

SwapAt(s, k) ==
    [i \in 1..Len(s) |-> IF i = k THEN s[k + 1] ELSE IF i = k + 1 THEN s[k] ELSE s[i]]

\* the orders in which the setup script may declare the columns of table
\* observation: every rotation and every exchange of two neighbours
ColumnOrders ==
    {Rotate(ObservationColumns, k) : k \in 0..(Len(ObservationColumns) - 1)}
        \cup {SwapAt(ObservationColumns, k) : k \in 1..(Len(ObservationColumns) - 1)}

\* what running the setup script does when table observation exists already:
\* it raises (CREATE TABLE) or leaves the table alone (IF NOT EXISTS)
DdlOutcomes == {"error", "kept"}

\* the arguments of the load command
CmdFileSets == {lo..hi : lo \in 1..CmdFiles, hi \in 1..CmdFiles}

CmdArgs ==
    {[cmd |-> "none", stations |-> 0, files |-> {}]}
        \cup {[cmd |-> "meta", stations |-> n, files |-> {}] : n \in StationFiles}
        \cup {[cmd |-> "observations", stations |-> 0, files |-> F] : F \in CmdFileSets}

\* main returns code without having touched the sink
Return(code, env, args) ==
    /\ exitcode' = code
    /\ cmds' = cmds + 1
    /\ lastCmd' = [env |-> env, cmd |-> args.cmd, stations |-> args.stations,
                    found |-> station, before |-> exitcode]
    /\ lpc' = "idle"
    /\ UNCHANGED <<fs, mdvars, dlvars, station, quantity, observation, invocation,
                   fnames, queue, li, log, loaded, sink, declared>>

\* load_meta_cmd(args): both dimension tables are replaced, then the setup
\* script of table observation is executed
load_meta_cmd(args) ==
    /\ station' = load_metadata(station, args.stations)
    /\ quantity' = load_quantities(quantity)
    /\ sink' = sink \cup {"station", "quantity", "observation"}
    /\ IF "observation" \notin sink
       THEN /\ \E order \in ColumnOrders : declared' = order
            /\ observation' = {}
            /\ exitcode' = 0
            /\ lpc' = "idle"
       ELSE /\ \E ddl \in DdlOutcomes :
                 /\ exitcode' = IF ddl = "kept" THEN 0 ELSE -1
                 /\ lpc' = IF ddl = "kept" THEN "idle" ELSE "aborted"
            /\ UNCHANGED <<declared, observation>>
    /\ cmds' = cmds + 1
    /\ lastCmd' = [env |-> TRUE, cmd |-> "meta", stations |-> args.stations,
                    found |-> station, before |-> exitcode]
    /\ UNCHANGED <<fs, mdvars, dlvars, invocation, fnames, queue, li, log, loaded>>

\* load_observations_cmd(args): load_observations on the files of the globs;
\* its queries raise when a table they name does not exist
load_observations_cmd(args) ==
    IF {"station", "quantity", "observation"} \subseteq sink
    THEN LoadStart(args.files)
    ELSE /\ lpc' = "aborted"
         /\ exitcode' = -1
         /\ cmds' = cmds + 1
         /\ lastCmd' = [env |-> TRUE, cmd |-> "observations", stations |-> 0,
                         found |-> station, before |-> exitcode]
         /\ UNCHANGED <<fs, mdvars, dlvars, station, quantity, observation,
                        invocation, fnames, queue, li, log, loaded, sink, declared>>

\* a main that looks at the subcommand before it looks at the environment
LoadMainParsesFirst(env, args) ==
    /\ lpc \in {"idle", "done", "aborted"}
    /\ cmds < MaxCmds
    /\ IF args.cmd = "none" THEN Return(1, env, args)
       ELSE IF ~env THEN Return(2, env, args)
       ELSE IF args.cmd = "meta" THEN load_meta_cmd(args)
       ELSE load_observations_cmd(args)

\* main(argv) of the load command, env: TIMESCALEDB_CONNECTION is set
LoadMain(env, args) ==
    /\ lpc \in {"idle", "done", "aborted"}
    /\ cmds < MaxCmds
    /\ IF ~env THEN Return(2, env, args)
       ELSE IF args.cmd = "none" THEN Return(1, env, args)
       ELSE IF args.cmd = "meta" THEN load_meta_cmd(args)
       ELSE load_observations_cmd(args)

\* an empty sink and no command run yet
CmdInit ==
    /\ fs = EmptyCache
    /\ prevCall = NoCall
    /\ lastCall = NoCall
    /\ pc = "off"
    /\ run = 1
    /\ meta = <<>>
    /\ file_parameters = {}
    /\ todo = {}
    /\ files = <<>>
    /\ idx = 1
    /\ startPaths = {}
    /\ attempts = NoAttempts
    /\ skipped = {}
    /\ retcode = -1
    /\ station = <<>>
    /\ quantity = <<>>
    /\ observation = {}
    /\ lpc = "idle"
    /\ invocation = 0
    /\ fnames = <<>>
    /\ queue = <<>>
    /\ li = 1
    /\ log = <<>>
    /\ loaded = {}
    /\ sink = {}
    /\ declared = <<>>
    /\ cmds = 0
    /\ lastCmd = NoCmd
    /\ exitcode = -1

CmdNext ==
    \/ \E env \in BOOLEAN : \E args \in CmdArgs : LoadMain(env, args)
    \/ \E sink_up \in BOOLEAN : LoadFile(sink_up)
    \/ LoadReturn

SpecCmd == CmdInit /\ [][CmdNext]_vars

----------------------------------------------------------------------------
(* Claims about load_observations *)

\* the file the next iteration reads
CurrentFile == queue[li]

BatchOf(f) == Batch(ObsFile(f).rows)

\* C8, as claimed: when a file that was loaded before is loaded again (and
\* the sink answers), the attempt hits the uniqueness violation, appends
\* nothing, is recorded as a warning and the loop goes on with the next file.
C8_SecondLoadWarnsAndSkips ==
    [][(lpc = "loading" /\ li <= Len(queue) /\ CurrentFile \in loaded
            /\ Len(log') = Len(log) + 1 /\ log'[Len(log')].sink_up)
        => /\ log'[Len(log')].exc = "unique"
           /\ observation' = observation
           /\ lpc' = "loading"
           /\ li' = li + 1]_vars

\* C8, amended: the same for a file of which at least one row survives the
\* join; a file that was loaded before leaves the fact table unchanged and
\* does not abort the run in either case.
C8_SecondLoadOfRowsWarnsAndSkips ==
    [][(lpc = "loading" /\ li <= Len(queue) /\ CurrentFile \in loaded
            /\ Len(log') = Len(log) + 1 /\ log'[Len(log')].sink_up)
        => /\ BatchOf(CurrentFile) # <<>> => log'[Len(log')].exc = "unique"
           /\ observation' = observation
           /\ lpc' = "loading"
           /\ li' = li + 1]_vars

\* C8 witness: a file with rows was loaded by one invocation and skipped with
\* a warning by the next, which then loaded a later file
C8_Witness ==
    /\ invocation = 2
    /\ \E i \in 1..Len(log) :
          /\ log[i].exc = "unique"
          /\ log[i].file \in loaded
          /\ BatchOf(log[i].file) # <<>>
          /\ \A r \in {CopiedRow(BatchOf(log[i].file)[k]) :
                          k \in 1..Len(BatchOf(log[i].file))} : r \in observation
          /\ i < Len(log)
          /\ log[i + 1].exc = "none"

\* C9: a run of load_observations that returns has processed every file of
\* its sorted input.
C9_EveryFileProcessed ==
    lpc = "done" =>
        \A i \in 1..Len(fnames) : \E j \in 1..Len(log) : log[j].file = fnames[i]

\* C10: when the file the loop reads decodes neither as UTF-8 nor as UTF-16,
\* load_observations raises, nothing is appended, and nothing is read or
\* appended after that in the invocation.
C10_UndecodableAborts ==
    [][/\ (lpc = "loading" /\ li <= Len(queue)
                /\ ~Decodes(ObsFile(CurrentFile), "utf-8")
                /\ ~Decodes(ObsFile(CurrentFile), "utf-16")
                /\ Len(log') = Len(log) + 1)
            => /\ lpc' = "aborted"
               /\ observation' = observation
               /\ log'[Len(log')].tried = Encodings
       /\ (lpc = "aborted" /\ invocation' = invocation)
            => UNCHANGED <<observation, log>>]_vars

\* C10 witness: the run was aborted by an undecodable file after it had
\* loaded a file, with files left in the list
C10_Witness ==
    /\ lpc = "aborted"
    /\ Len(log) > 1
    /\ log[1].exc = "none"
    /\ log[Len(log)].exc = "error"
    /\ log[Len(log)].sink_up
    /\ log[Len(log)].tried = Encodings
    /\ li < Len(queue)
    /\ observation # {}

\* the rows of the observation table that the batch of file f becomes
RowsOf(f) == {CopiedRow(BatchOf(f)[k]) : k \in 1..Len(BatchOf(f))}

\* C11: the read step of every file tries UTF-8 first and UTF-16 only after
\* UTF-8 failed to decode; a file that decodes as UTF-16 only is read at the
\* second attempt, goes on to the bulk-append, is loaded when the sink takes
\* the batch, and the loop goes on with the next file.
C11_Utf16FallbackLoads ==
    [][(lpc = "loading" /\ li <= Len(queue) /\ Len(log') = Len(log) + 1)
        => LET file == ObsFile(CurrentFile)
               e == log'[Len(log')]
           IN  /\ e.tried[1] = "utf-8"
               /\ Decodes(file, "utf-8") => e.tried = <<"utf-8">>
               /\ (~Decodes(file, "utf-8") /\ Decodes(file, "utf-16"))
                    => /\ e.tried = <<"utf-8", "utf-16">>
                       /\ e.sink_up
                            => /\ e.exc \in {"none", "unique"}
                               /\ e.exc = "none"
                                    => /\ observation' = observation \cup RowsOf(CurrentFile)
                                       /\ CurrentFile \in loaded'
                               /\ e.exc = "unique" => observation' = observation
                               /\ lpc' = "loading"
                               /\ li' = li + 1]_vars

\* C11 witness: a UTF-16 file was read at the second attempt and loaded, and
\* the loop then read the next file
C11_Witness ==
    \E i \in 1..Len(log) :
        /\ ObsFile(log[i].file).encoding = "utf-16"
        /\ log[i].tried = <<"utf-8", "utf-16">>
        /\ log[i].exc = "none"
        /\ RowsOf(log[i].file) # {}
        /\ RowsOf(log[i].file) \subseteq observation
        /\ i < Len(log)
        /\ log[i + 1].tried = <<"utf-8">>

----------------------------------------------------------------------------
(* Claims about the load command *)

\* the step is a command of the given kind, run with the connection string set
IsCmd(kind) == cmds' = cmds + 1 /\ lastCmd'.env /\ lastCmd'.cmd = kind

\* C12: whatever load commands are run, in whatever order: while table
\* observation holds rows (each references a station and a quantity by id),
\* no command loads the dimensions and the station and quantity tables keep
\* their rows.
C12_DimensionsFixedUnderFacts ==
    [][observation # {}
        => /\ ~IsCmd("meta")
           /\ station' = station
           /\ quantity' = quantity]_vars

\* C13: a `meta` command leaves in table station exactly the rows of the
\* stations file it was given, in the file's order, whatever the table held
\* before, and the station_id of each row occurs once in the table.
C13_SecondLoadReplaces ==
    [][IsCmd("meta")
        => LET f == ReadStations(StationFile(lastCmd'.stations))
           IN  /\ Len(station') = Len(f)
               /\ \A i \in 1..Len(f) :
                     /\ station'[i].air_quality_station = f[i].AirQualityStation
                     /\ station'[i].altitude = f[i].Altitude
               /\ \A i, j \in 1..Len(station') :
                     station'[i].station_id = station'[j].station_id => i = j]_vars

\* C13 witness: table station was loaded from one file and then from another
\* with a different number of rows
C13_Witness ==
    /\ lastCmd.env
    /\ lastCmd.cmd = "meta"
    /\ lastCmd.found # <<>>
    /\ Len(lastCmd.found) # Len(station)
    /\ Len(station) = Len(StationFile(lastCmd.stations))

\* the file the loop reads next can be decoded
Readable == ReadObservations(ObsFile(CurrentFile), Encodings, <<>>).exc = "none"

\* the rows of file f whose two codes have a match, each with the ids of the
\* matching station and quantity rows
Resolved(f) ==
    {[concentration |-> ObsFile(f).rows[i].Concentration,
      datetime_begin |-> ObsFile(f).rows[i].DatetimeBegin,
      datetime_end |-> ObsFile(f).rows[i].DatetimeEnd,
      validity |-> ObsFile(f).rows[i].Validity,
      verification |-> ObsFile(f).rows[i].Verification,
      station_id |-> station[j].station_id,
      quantity_id |-> quantity[k].quantity_id] :
        <<i, j, k>> \in
            {t \in (1..Len(ObsFile(f).rows)) \X (1..Len(station)) \X (1..Len(quantity)) :
                /\ station[t[2]].air_quality_station
                        = ObsFile(f).rows[t[1]].AirQualityStation
                /\ quantity[t[3]].air_pollutant_code
                        = ObsFile(f).rows[t[1]].AirPollutantCode}}

\* C14: of the rows of an observation file, the batch handed to the
\* bulk-append holds exactly those whose station code and pollutant code both
\* have a match, each with the station_id and quantity_id of the matching
\* rows; the other rows are dropped without an error, and an append the sink
\* accepts adds exactly these rows.
C14_JoinKeepsResolvedRows ==
    [][(lpc = "loading" /\ li <= Len(queue) /\ Readable
            /\ Len(log') = Len(log) + 1)
        => LET e == log'[Len(log')]
           IN  /\ RowsOf(CurrentFile) = Resolved(CurrentFile)
               /\ e.sink_up => e.exc \in {"none", "unique"}
               /\ e.exc = "none"
                    => observation' = observation \cup Resolved(CurrentFile)]_vars

\* C14 witness: a file with a row of an unknown station and a row of an
\* unknown pollutant was appended without error, and a row of a known
\* station was loaded with the id of a station table loaded from the second
\* stations file
C14_Witness ==
    /\ \E i \in 1..Len(log) :
          /\ log[i].exc = "none"
          /\ Len(ObsFile(log[i].file).rows) > Len(BatchOf(log[i].file))
    /\ \E i \in 1..Len(log) :
          /\ log[i].exc = "none"
          /\ RowsOf(log[i].file) # {}
          /\ RowsOf(log[i].file) \subseteq observation
          /\ \A r \in RowsOf(log[i].file) : r.station_id > 1

\* the joined rows of file f, by column name
Joined(f) ==
    Merge(Merge(normalize_column_names(ObsFile(f).rows), station,
                "air_quality_station"),
          quantity, "air_pollutant_code")

\* C15: whatever order the sink declares for the columns of table
\* observation, each line of the batch handed to the bulk-append has exactly
\* the sink's columns, in the sink's order, so that the positional copy puts
\* every value into the column of its name.
C15_BatchInSinkOrder ==
    [][(lpc = "loading" /\ li <= Len(queue) /\ Readable
            /\ Len(log') = Len(log) + 1)
        => LET b == BatchOf(CurrentFile)
           IN  /\ \A i \in 1..Len(b) :
                     /\ Len(b[i]) = Len(declared)
                     /\ \A k \in 1..Len(declared) : b[i][k].col = declared[k]
               /\ log'[Len(log')].exc = "none"
                    => observation' = observation \cup
                          {[c \in {declared[k] : k \in 1..Len(declared)} |->
                                Joined(CurrentFile)[i][c]] :
                             i \in 1..Len(Joined(CurrentFile))}]_vars

\* C15 witness: rows were appended to a table whose columns are declared in
\* another order than the columns have in the DataFrame
C15_Witness ==
    /\ declared # <<>>
    /\ declared # ObservationColumns
    /\ declared[1] # "concentration"
    /\ \E i \in 1..Len(log) :
          /\ log[i].exc = "none"
          /\ RowsOf(log[i].file) # {}
          /\ RowsOf(log[i].file) \subseteq observation

\* C16: a command run without the connection string returns 2, whatever its
\* arguments, and leaves the sink as it was; a command run with the
\* connection string and without a subcommand returns 1.
C16_ExitCodes ==
    [][cmds' = cmds + 1
        => /\ ~lastCmd'.env
                => /\ exitcode' = 2
                   /\ UNCHANGED <<station, quantity, observation, sink, declared,
                                  invocation, log>>
           /\ (lastCmd'.env /\ lastCmd'.cmd = "none") => exitcode' = 1]_vars

\* C16 witness: after the tables were loaded, a command without subcommand
\* returned 1 and then a `meta` command without the connection string
\* returned 2 and left table station alone
C16_Witness ==
    /\ ~lastCmd.env
    /\ lastCmd.cmd = "meta"
    /\ exitcode = 2
    /\ lastCmd.before = 1
    /\ station # <<>>
    /\ lastCmd.stations = 2
    /\ Len(station) # Len(StationFile(2))

----------------------------------------------------------------------------
(* Claims about failures of the bulk-append *)

\* C17: when the bulk-append of a file fails with an error that is no
\* uniqueness violation, the error is logged and raised and the run is
\* aborted: the rows of the files appended before stay in table observation,
\* and after the abort the invocation reads and appends no further file.
C17_AppendFailureAborts ==
    [][/\ (lpc = "loading" /\ li <= Len(queue) /\ Readable
                /\ Len(log') = Len(log) + 1 /\ ~log'[Len(log')].sink_up)
            => /\ log'[Len(log')].exc = "error"
               /\ log'[Len(log')].file = CurrentFile
               /\ lpc' = "aborted"
               /\ observation' = observation
               /\ loaded' = loaded
       /\ (lpc = "aborted" /\ invocation' = invocation)
            => /\ lpc' = "aborted"
               /\ UNCHANGED <<observation, log, li, loaded>>]_vars

\* C17 witness: the append of the second file failed in the sink; the rows
\* of the first file are in the table and files are left in the list
C17_Witness ==
    /\ lpc = "aborted"
    /\ Len(log) = 2
    /\ log[1].exc = "none"
    /\ RowsOf(log[1].file) # {}
    /\ RowsOf(log[1].file) \subseteq observation
    /\ log[2].exc = "error"
    /\ ~log[2].sink_up
    /\ log[2].tried # Encodings
    /\ li < Len(queue)

----------------------------------------------------------------------------
(* Claims about the order of processing and the paths of the cache *)

\* the file name of a path
FileName(path) == path[Len(path)]

\* C18: every stage takes its items in lexicographically sorted file-name
\* order: the file-list loop visits the pair with the least file-list name
\* among those left, the raw-data loop goes through the file lists in the
\* order of their names, and load_observations through its files in the
\* order of theirs.
C18_SortedOrderEverywhere ==
    [][/\ (pc = "file_lists" /\ todo' # todo)
            => \E pair \in todo :
                  /\ todo' = todo \ {pair}
                  /\ \A other \in todo \ {pair} :
                        LexLess(FileName(PairPath(pair)), FileName(PairPath(other)))
       /\ \A i, j \in 1..Len(files) :
             i < j => \/ files[i].path = files[j].path
                      \/ LexLess(FileName(files[i].path), FileName(files[j].path))
       /\ \A i, j \in 1..Len(queue) : i < j => queue[i] < queue[j]]_vars

\* C19: for every file list cached under file_lists/{pollutant}_{country}.csv.xz
\* the raw-data stage gets the pollutant and the country back from the path
\* of the file list, for each of its entries.
C19_PathRoundTrip ==
    \A pair \in file_parameters :
        \A i \in 1..Len(files) :
            files[i].path = PairPath(pair)
                => /\ Len(StemParts(files[i].path)) = 2
                   /\ StemParts(files[i].path) = <<Fmt(pair[1]), Fmt(pair[2])>>

\* C20: a download main that runs to its end returns 0, however many file
\* lists and data files it failed to fetch and skipped; main returns no other
\* value, so the value tells nothing about skipped resources.
C20_CompletionReturnsZero ==
    /\ pc = "done" => retcode = 0
    /\ retcode \in {-1, 0}
    /\ retcode = 0 => pc = "done"

\* C20 witness: a pass that skipped a pair in the file-list stage and an entry
\* in the raw-data stage, and left a file of the catalog unfetched, returned 0
C20_Witness ==
    /\ pc = "done"
    /\ retcode = 0
    /\ \E sk \in skipped : sk.stage = "file_lists"
    /\ \E sk \in skipped : sk.stage = "raw"
    /\ \E i \in 1..Len(files) :
          EntryBad(files[i]) \/ ~Exists(fs, EntryPath(files[i]))

====
